---- MODULE Spec2Model ----
(***************************************************************************)
(* WonderKid client: the phase-driven StoryScreen (story session state     *)
(* machine, checkAndShowVideo opening the browser or the player modal),    *)
(* the gallery store written by saveImageToGallery and cleared by          *)
(* HistoryScreen, and the three VideoPlayerScreen variants (status poller).*)
(*                                                                         *)
(* Encoding of JavaScript values:                                          *)
(*   - a string that may be null/undefined is the string NULL;             *)
(*   - a number that may be absent is NoInt;                               *)
(*   - an array that may be null/undefined is None or Some(array).         *)
(* An async handler is split at each await: the part before the fetch is   *)
(* one action, the continuation after the response (or the catch block)    *)
(* another; values read from the render closure are carried in the         *)
(* in-flight record.                                                       *)
(***************************************************************************)
EXTENDS Integers, Sequences, FiniteSets, Bags, TLC

VARIABLES
    phase,                  \* useState('input')
    userInput,              \* useState(''): the theme text, by its length
    storyData,              \* useState({...}): the story session
    videoTriggered,         \* useState(false)
    isCheckingVideoStatus,  \* useState(false)
    sessionStoryIdRef,      \* useRef(null).current
    showVideoPlayer,        \* useState(false) (StoryScreen with the player modal)
    genReq,                 \* generate-story requests in flight
    contReq,                \* continue-story requests in flight (with closure)
    checks,                 \* checkAndShowVideo calls in flight
    alert,                  \* the Alert dialog on screen
    store,                  \* AsyncStorage item 'sessionImages'
    saves,                  \* saveImageToGallery calls in flight
    clears,                 \* HistoryScreen clearAllImages confirmations in flight
    variant,                \* which VideoPlayerScreen of the file is built
    isExpoGo,               \* Constants.appOwnership === 'expo'
    mounted,                \* the VideoPlayerScreen is on screen
    storyId,                \* prop storyId
    sceneCount,             \* prop sceneCount
    videoUrl,               \* useState(null)
    gcsUrl,                 \* useState(null) (expo-video variant)
    loading,                \* useState(true)
    error,                  \* useState(null)
    videoStatus,            \* useState('checking')
    checkInterval,          \* the interval checkInterval.current refers to
    statusReq,              \* video-status requests in flight
    triggerReq,             \* generation-start requests in flight
    theme,                  \* route.params.theme (route-driven StoryScreen)
    screen,                 \* the useState values of the route-driven StoryScreen
    routeGenReq,            \* its generate-story requests in flight
    routeContReq,           \* its continue-story requests in flight (with closure)
    routeAlert              \* the Alert dialog it put on screen

storyVars == <<phase, userInput, storyData, videoTriggered,
               isCheckingVideoStatus, sessionStoryIdRef, showVideoPlayer,
               genReq, contReq, checks, alert>>
galleryVars == <<store, saves, clears>>
videoVars == <<variant, isExpoGo, mounted, storyId, sceneCount, videoUrl,
               gcsUrl, loading, error, videoStatus, checkInterval, statusReq,
               triggerReq>>
routeVars == <<theme, screen, routeGenReq, routeContReq, routeAlert>>
vars == <<phase, userInput, storyData, videoTriggered, isCheckingVideoStatus,
          sessionStoryIdRef, showVideoPlayer, genReq, contReq, checks, alert,
          store, saves,
          clears, variant, isExpoGo, mounted, storyId, sceneCount, videoUrl,
          gcsUrl, loading, error, videoStatus, checkInterval, statusReq,
          triggerReq, theme, screen, routeGenReq, routeContReq, routeAlert>>

----------------------------------------------------------------------------
(* Bounds of the model *)

\* longest paragraphs array a server response carries
MaxRespParagraphs == 2
\* the network fails a continue-story call only while the story is shorter
MaxStoryLen == 3
\* saveImageToGallery calls in flight at once
MaxSaves == 2
\* checkAndShowVideo calls in flight at once
MaxChecks == 2

----------------------------------------------------------------------------
(* JavaScript values *)

NULL == "null"
NoInt == -1
None == <<>>
Some(x) == <<x>>
IsSome(o) == o # None
Get(o) == o[1]

\* a || b for strings, numbers and arrays
Truthy(s) == s # NULL /\ s # ""
OrStr(a, b) == IF Truthy(a) THEN a ELSE b
OrInt(a, b) == IF a # NoInt /\ a # 0 THEN a ELSE b
OrArr(a, b) == IF IsSome(a) THEN a ELSE b

API_URL == "https://bigredhacks25-331813490179.us-east4.run.app"
maxLength == 200
videoTriggerIteration == 10

----------------------------------------------------------------------------
(* What the server and the user may send *)

ParagraphTexts == <<"Once upon a time.", "A dragon appeared.", "The end.">>
ServerParagraphLists ==
    { SubSeq(ParagraphTexts, 1, n) : n \in 0..MaxRespParagraphs }
ServerParagraphs == {None} \cup { Some(l) : l \in ServerParagraphLists }
ServerCurrentParagraph == {NoInt} \cup (0..MaxRespParagraphs)
ServerChoiceLists == { <<>>, <<"Open The Door">> }
ServerChoices == {None} \cup { Some(l) : l \in ServerChoiceLists }
ServerImageUrls == {NULL, "/images/scene.png"}
GenStoryIds == {NULL, "", "  ", "story_abc"}
ContStoryIds == {NULL, "story_abc", "story_xyz"}
ThemeLengths == {0, maxLength}
FallbackStoryIds == {"story_1700000000000"}

fallbackChoices == <<"Explore the glowing cave ahead",
                     "Climb the ancient oak tree",
                     "Follow the rainbow path">>

\* String.prototype.trim on the story ids above
trim(s) == IF s = "  " THEN "" ELSE s

\* String.prototype.toLowerCase on the choice texts above
toLowerCase(s) ==
    CASE s = "Open The Door" -> "open the door"
      [] s = "Explore the glowing cave ahead" -> "explore the glowing cave ahead"
      [] s = "Climb the ancient oak tree" -> "climb the ancient oak tree"
      [] s = "Follow the rainbow path" -> "follow the rainbow path"
      [] OTHER -> s

fillerParagraph(choice) ==
    "You chose to " \o toLowerCase(choice) \o
    ". The adventure continues as new wonders unfold before your eyes..."

----------------------------------------------------------------------------
(* Alerts *)

NoAlert == [kind |-> "none", checking |-> FALSE, storyId |-> NULL]
Alert(kind) == [kind |-> kind, checking |-> FALSE, storyId |-> NULL]
\* the 'Amazing!' alert keeps the closure of the render handleChoice ran in
AlertWithClosure(kind, req) ==
    [kind |-> kind, checking |-> req.checking, storyId |-> req.storyId]

Browsing == \E c \in DOMAIN checks : c.pc = "browser" /\ checks[c] > 0
\* the user can touch the screen: no dialog and no browser sheet over it
UIFree == alert.kind = "none" /\ ~Browsing

----------------------------------------------------------------------------
(* Gallery store: saveImageToGallery *)

JSONstringify(arr) == Some(arr)
JSONparse(item) == Get(item)
includes(arr, x) == \E i \in 1..Len(arr) : arr[i] = x

BagAdd(b, e) == b (+) SetToBag({e})
BagRemove(b, e) == b (-) SetToBag({e})
BagSize(b) == BagCardinality(b)

\* the call itself: returns at once without an URL, else waits for getItem
saveImageToGalleryCall(imageUrl) ==
    IF ~Truthy(imageUrl)
    THEN saves
    ELSE BagAdd(saves, [pc |-> "getItem", imageUrl |-> imageUrl,
                        imageArray |-> <<>>])

----------------------------------------------------------------------------
(* StoryScreen (phase-driven) *)

initialStoryData ==
    [paragraphs |-> <<>>, currentParagraph |-> 0, iteration |-> 1,
     maxIterations |-> 10, choices |-> None, imageUrl |-> NULL,
     imageGenerated |-> FALSE, storyId |-> NULL]

\* TextInput onChangeText={setUserInput}, maxLength={200}
setUserInput(len) ==
    /\ phase = "input"
    /\ UIFree
    /\ len <= maxLength
    /\ userInput # len
    /\ userInput' = len
    /\ UNCHANGED <<phase, storyData, videoTriggered, isCheckingVideoStatus,
                   sessionStoryIdRef, genReq, contReq, checks, alert,
                   galleryVars, videoVars, routeVars,
                   showVideoPlayer>>

\* generateStory without its setPhase('loading')
generateStory_noLoading ==
    /\ phase = "input"
    /\ UIFree
    /\ sessionStoryIdRef' = NULL
    /\ videoTriggered' = FALSE
    /\ genReq' = BagAdd(genReq, [theme |-> userInput])
    /\ UNCHANGED <<phase, userInput, storyData, isCheckingVideoStatus,
                   contReq, checks, alert, galleryVars, videoVars, routeVars,
                   showVideoPlayer>>

\* generateStory without sessionStoryIdRef.current = null
generateStory_keepsRef ==
    /\ phase = "input"
    /\ UIFree
    /\ phase' = "loading"
    /\ videoTriggered' = FALSE
    /\ genReq' = BagAdd(genReq, [theme |-> userInput])
    /\ UNCHANGED <<userInput, storyData, isCheckingVideoStatus,
                   sessionStoryIdRef, contReq, checks, alert, galleryVars,
                   videoVars, routeVars, showVideoPlayer>>

\* generateStory up to its fetch: the submit of the theme
generateStory ==
    /\ phase = "input"
    /\ UIFree
    /\ phase' = "loading"
    /\ sessionStoryIdRef' = NULL
    /\ videoTriggered' = FALSE
    /\ genReq' = BagAdd(genReq, [theme |-> userInput])
    /\ UNCHANGED <<userInput, storyData, isCheckingVideoStatus, contReq,
                   checks, alert, galleryVars, videoVars, routeVars,
                   showVideoPlayer>>

\* the session built from a generate-story response
aiStory(result, id) ==
    [paragraphs |-> Get(OrArr(result.paragraphs, Some(<<>>))),
     currentParagraph |-> 0,
     choices |-> OrArr(result.choices, Some(<<>>)),
     iteration |-> 1,
     maxIterations |-> 10,
     imageUrl |-> OrStr(result.image_url, NULL),
     imageGenerated |-> result.image_generated,
     storyId |-> id]

\* the fallback taken on a falsy story_id only: !storyId without the trim
sessionStoryId_noTrim(result, fallbackId) ==
    IF ~Truthy(result.story_id) THEN fallbackId ELSE result.story_id

\* the session story id: the backend's, or a generated one when it is blank
sessionStoryId(result, fallbackId) ==
    IF ~Truthy(result.story_id) \/ trim(result.story_id) = ""
    THEN fallbackId
    ELSE result.story_id

\* the response handled without storing the id in sessionStoryIdRef
generateStoryThen_refNotSet(req, result, fallbackId) ==
    /\ genReq' = BagRemove(genReq, req)
    /\ storyData' = aiStory(result, sessionStoryId(result, fallbackId))
    /\ saves' = saveImageToGalleryCall(result.image_url)
    /\ phase' = "reading"
    /\ UNCHANGED <<userInput, videoTriggered, isCheckingVideoStatus,
                   sessionStoryIdRef, contReq, checks, alert, store, clears, videoVars, routeVars,
                   showVideoPlayer>>

\* generateStory after a 2xx response with a JSON body
generateStoryThen(req, result, fallbackId) ==
    /\ genReq' = BagRemove(genReq, req)
    /\ sessionStoryIdRef' = sessionStoryId(result, fallbackId)
    /\ storyData' = aiStory(result, sessionStoryId(result, fallbackId))
    /\ saves' = saveImageToGalleryCall(result.image_url)
    /\ phase' = "reading"
    /\ UNCHANGED <<userInput, videoTriggered, isCheckingVideoStatus, contReq,
                   checks, alert, store, clears, videoVars, routeVars,
                   showVideoPlayer>>

\* generateStory's catch: fetch rejected, non-2xx, or unreadable body
generateStoryCatch(req) ==
    /\ genReq' = BagRemove(genReq, req)
    /\ alert' = Alert("generation_failed")
    /\ phase' = "input"
    /\ UNCHANGED <<userInput, storyData, videoTriggered,
                   isCheckingVideoStatus, sessionStoryIdRef, contReq, checks,
                   galleryVars, videoVars, routeVars,
                   showVideoPlayer>>

\* handleNext without the test of iteration against maxIterations
handleNext_ignoresMax ==
    /\ phase = "reading"
    /\ UIFree
    /\ IF storyData.currentParagraph < Len(storyData.paragraphs) - 1
       THEN /\ storyData' = [storyData EXCEPT
                                !.currentParagraph = storyData.currentParagraph + 1]
            /\ phase' = phase
       ELSE IF IsSome(storyData.choices)
       THEN /\ phase' = "choosing"
            /\ storyData' = storyData
       ELSE /\ phase' = "complete"
            /\ storyData' = storyData
    /\ UNCHANGED <<userInput, videoTriggered, isCheckingVideoStatus,
                   sessionStoryIdRef, genReq, contReq, checks, alert,
                   galleryVars, videoVars, routeVars,
                   showVideoPlayer>>

handleNext ==
    /\ phase = "reading"
    /\ UIFree
    /\ IF storyData.currentParagraph < Len(storyData.paragraphs) - 1
       THEN /\ storyData' = [storyData EXCEPT
                                !.currentParagraph = storyData.currentParagraph + 1]
            /\ phase' = phase
       ELSE IF IsSome(storyData.choices)
               /\ storyData.iteration < storyData.maxIterations
       THEN /\ phase' = "choosing"
            /\ storyData' = storyData
       ELSE /\ phase' = "complete"
            /\ storyData' = storyData
    /\ UNCHANGED <<userInput, videoTriggered, isCheckingVideoStatus,
                   sessionStoryIdRef, genReq, contReq, checks, alert,
                   galleryVars, videoVars, routeVars,
                   showVideoPlayer>>

\* handleChoice without its setPhase('loading')
handleChoice_keepsPhase(choiceIndex) ==
    /\ phase = "choosing"
    /\ UIFree
    /\ IsSome(storyData.choices)
    /\ choiceIndex \in 1..Len(Get(storyData.choices))
    /\ BagSize(contReq) < 2
    /\ contReq' = BagAdd(contReq,
          [choice |-> Get(storyData.choices)[choiceIndex],
           story_id |-> OrStr(sessionStoryIdRef, "current_story"),
           current_paragraph |-> storyData.currentParagraph,
           iteration |-> storyData.iteration,
           storyId |-> storyData.storyId,
           checking |-> isCheckingVideoStatus])
    /\ UNCHANGED <<phase, userInput, storyData, videoTriggered,
                   isCheckingVideoStatus, sessionStoryIdRef, genReq, checks,
                   alert, galleryVars, videoVars, routeVars, showVideoPlayer>>

\* handleChoice up to its fetch: the request body and the render closure
handleChoice(choiceIndex) ==
    /\ phase = "choosing"
    /\ UIFree
    /\ IsSome(storyData.choices)
    /\ choiceIndex \in 1..Len(Get(storyData.choices))
    /\ phase' = "loading"
    /\ contReq' = BagAdd(contReq,
          [choice |-> Get(storyData.choices)[choiceIndex],
           story_id |-> OrStr(sessionStoryIdRef, "current_story"),
           current_paragraph |-> storyData.currentParagraph,
           iteration |-> storyData.iteration,
           storyId |-> storyData.storyId,
           checking |-> isCheckingVideoStatus])
    /\ UNCHANGED <<userInput, storyData, videoTriggered,
                   isCheckingVideoStatus, sessionStoryIdRef, genReq, checks,
                   alert, galleryVars, videoVars, routeVars,
                   showVideoPlayer>>

\* the try block's update with iteration left as it was
continuedStory_keepsIteration(prev, req, result) ==
    [prev EXCEPT
        !.paragraphs = Get(OrArr(result.paragraphs, Some(prev.paragraphs))),
        !.currentParagraph = OrInt(result.current_paragraph, prev.currentParagraph),
        !.choices = OrArr(result.choices, None),
        !.imageUrl = OrStr(result.image_url, prev.imageUrl),
        !.imageGenerated = result.image_generated,
        !.storyId = OrStr(result.story_id, req.storyId)]

\* setStoryData(prev => ...) of the try block
continuedStory(prev, req, result) ==
    [prev EXCEPT
        !.paragraphs = Get(OrArr(result.paragraphs, Some(prev.paragraphs))),
        !.currentParagraph = OrInt(result.current_paragraph, prev.currentParagraph),
        !.choices = OrArr(result.choices, None),
        !.iteration = prev.iteration + 1,
        !.imageUrl = OrStr(result.image_url, prev.imageUrl),
        !.imageGenerated = result.image_generated,
        !.storyId = OrStr(result.story_id, req.storyId)]

\* the video trigger test of the try block, on the closure's iteration
videoTriggerReached(req, result) ==
    result.video_trigger \/ req.iteration + 1 >= videoTriggerIteration

\* handleChoice after a 2xx response with a JSON body
handleChoiceThen(req, result) ==
    /\ contReq' = BagRemove(contReq, req)
    /\ sessionStoryIdRef' = OrStr(result.story_id, sessionStoryIdRef)
    /\ storyData' = continuedStory(storyData, req, result)
    /\ saves' = saveImageToGalleryCall(result.image_url)
    /\ IF videoTriggerReached(req, result)
       THEN /\ videoTriggered' = TRUE
            /\ alert' = AlertWithClosure("video_triggered", req)
       ELSE UNCHANGED <<videoTriggered, alert>>
    /\ phase' = "reading"
    /\ UNCHANGED <<userInput, isCheckingVideoStatus, genReq, checks, store,
                   clears, videoVars, routeVars,
                   showVideoPlayer>>

\* the catch block's update with > in place of >= maxIterations
fallbackStory_strictMax(prev, req) ==
    [prev EXCEPT
        !.paragraphs = Append(prev.paragraphs, fillerParagraph(req.choice)),
        !.currentParagraph = Len(prev.paragraphs),
        !.iteration = prev.iteration + 1,
        !.choices = IF prev.iteration + 1 > prev.maxIterations
                    THEN None
                    ELSE Some(fallbackChoices)]

\* the catch block's update pointing at the last paragraph read
fallbackStory_offByOne(prev, req) ==
    [prev EXCEPT
        !.paragraphs = Append(prev.paragraphs, fillerParagraph(req.choice)),
        !.currentParagraph = Len(prev.paragraphs) - 1,
        !.iteration = prev.iteration + 1,
        !.choices = IF prev.iteration + 1 >= prev.maxIterations
                    THEN None
                    ELSE Some(fallbackChoices)]

\* setStoryData(prev => ...) of the catch block
fallbackStory(prev, req) ==
    [prev EXCEPT
        !.paragraphs = Append(prev.paragraphs, fillerParagraph(req.choice)),
        !.currentParagraph = Len(prev.paragraphs),
        !.iteration = prev.iteration + 1,
        !.choices = IF prev.iteration + 1 >= prev.maxIterations
                    THEN None
                    ELSE Some(fallbackChoices)]

\* the catch going back to the choices (setPhase('choosing')) for a retry
handleChoiceCatch_toChoosing(req) ==
    /\ contReq' = BagRemove(contReq, req)
    /\ storyData' = fallbackStory(storyData, req)
    /\ phase' = "choosing"
    /\ UNCHANGED <<userInput, videoTriggered, isCheckingVideoStatus,
                   sessionStoryIdRef, genReq, checks, alert, galleryVars, videoVars, routeVars,
                   showVideoPlayer>>

\* handleChoice's catch: fetch rejected, non-2xx, or unreadable body
handleChoiceCatch(req) ==
    /\ contReq' = BagRemove(contReq, req)
    /\ storyData' = fallbackStory(storyData, req)
    /\ phase' = "reading"
    /\ UNCHANGED <<userInput, videoTriggered, isCheckingVideoStatus,
                   sessionStoryIdRef, genReq, checks, alert, galleryVars, videoVars, routeVars,
                   showVideoPlayer>>

resetStory ==
    /\ phase = "complete"
    /\ UIFree
    /\ phase' = "input"
    /\ userInput' = 0
    /\ videoTriggered' = FALSE
    /\ storyData' = initialStoryData
    /\ UNCHANGED <<isCheckingVideoStatus, sessionStoryIdRef, genReq, contReq,
                   checks, alert, galleryVars, videoVars, routeVars,
                   showVideoPlayer>>

----------------------------------------------------------------------------
(* StoryScreen: checkAndShowVideo *)

startsWith(s, p) == Len(s) >= Len(p) /\ SubSeq(s, 1, Len(p)) = p

GcsUrl == "https://storage.googleapis.com/videos/story.mp4"
ServerGcsUrls == {NULL, GcsUrl}
ServerVideoUrls == {NULL, "/videos/story.mp4", "http://media.example/story.mp4"}
ServerVideoStatus == {"not_started", "processing", "started", "completed", "error"}
VideoStatusData ==
    [status : ServerVideoStatus, gcs_url : ServerGcsUrls,
     video_url : ServerVideoUrls]

\* data.video_url.startsWith('http') ? data.video_url : `${API_URL}${data.video_url}`
fullUrl(video_url) ==
    IF startsWith(video_url, "http") THEN video_url ELSE API_URL \o video_url

\* the URL checkAndShowVideo opens in the browser
browserUrl(data) ==
    IF Truthy(data.gcs_url) THEN data.gcs_url ELSE fullUrl(data.video_url)

\* checkAndShowVideo without its early return
startCheck_noGuard(closureChecking, closureStoryId) ==
    /\ isCheckingVideoStatus' = TRUE
    /\ checks' = BagAdd(checks,
          [pc |-> "fetch",
           storyId |-> OrStr(sessionStoryIdRef,
                             OrStr(closureStoryId, "current_story")),
           url |-> NULL])

startCheck(closureChecking, closureStoryId) ==
    IF closureChecking
    THEN UNCHANGED <<isCheckingVideoStatus, checks>>
    ELSE /\ isCheckingVideoStatus' = TRUE
         /\ checks' = BagAdd(checks,
               [pc |-> "fetch",
                storyId |-> OrStr(sessionStoryIdRef,
                                  OrStr(closureStoryId, "current_story")),
                url |-> NULL])

\* the 'watch' button of the reading and complete screens
checkAndShowVideo ==
    /\ \/ phase = "reading" /\ videoTriggered
       \/ phase = "complete"
    /\ UIFree
    /\ ~isCheckingVideoStatus
    /\ BagSize(checks) < MaxChecks
    /\ startCheck(isCheckingVideoStatus, storyData.storyId)
    /\ UNCHANGED <<phase, userInput, storyData, videoTriggered,
                   sessionStoryIdRef, genReq, contReq, alert, galleryVars, videoVars, routeVars,
                   showVideoPlayer>>

\* checkAndShowVideo after a 2xx response with a JSON body
checkAndShowVideoThen(c, data) ==
    /\ c.pc = "fetch"
    /\ IF data.status = "completed"
          /\ (Truthy(data.video_url) \/ Truthy(data.gcs_url))
       THEN /\ checks' = BagAdd(BagRemove(checks, c),
                                [c EXCEPT !.pc = "browser",
                                          !.url = browserUrl(data)])
            /\ UNCHANGED <<alert, isCheckingVideoStatus>>
       ELSE /\ checks' = BagRemove(checks, c)
            /\ isCheckingVideoStatus' = FALSE
            /\ alert' = IF data.status \in {"processing", "started"}
                        THEN Alert("still_brewing")
                        ELSE IF data.status = "error"
                        THEN Alert("video_error")
                        ELSE Alert("video_not_ready")
    /\ UNCHANGED <<phase, userInput, storyData, videoTriggered,
                   sessionStoryIdRef, genReq, contReq, galleryVars, videoVars, routeVars,
                   showVideoPlayer>>

\* checkAndShowVideo's catch and finally: non-2xx, unparseable body,
\* rejected fetch, or a browser that failed to open
checkAndShowVideoCatch(c) ==
    /\ checks' = BagRemove(checks, c)
    /\ alert' = Alert("check_error")
    /\ isCheckingVideoStatus' = FALSE
    /\ UNCHANGED <<phase, userInput, storyData, videoTriggered,
                   sessionStoryIdRef, genReq, contReq, galleryVars, videoVars, routeVars,
                   showVideoPlayer>>

\* WebBrowser.openBrowserAsync resolves: the finally block
browserClosed(c) ==
    /\ c.pc = "browser"
    /\ checks' = BagRemove(checks, c)
    /\ isCheckingVideoStatus' = FALSE
    /\ UNCHANGED <<phase, userInput, storyData, videoTriggered,
                   sessionStoryIdRef, genReq, contReq, alert, galleryVars, videoVars, routeVars,
                   showVideoPlayer>>

generateVideo == Alert("video_generation_started")

\* the buttons of the Alert on screen
alertDismiss ==
    /\ alert.kind # "none"
    /\ alert' = NoAlert
    /\ UNCHANGED <<phase, userInput, storyData, videoTriggered,
                   isCheckingVideoStatus, sessionStoryIdRef, genReq, contReq,
                   checks, galleryVars, videoVars, routeVars,
                   showVideoPlayer>>

alertTryAgain ==
    /\ alert.kind = "generation_failed"
    /\ alert' = NoAlert
    /\ phase' = "input"
    /\ UNCHANGED <<userInput, storyData, videoTriggered,
                   isCheckingVideoStatus, sessionStoryIdRef, genReq, contReq,
                   checks, galleryVars, videoVars, routeVars,
                   showVideoPlayer>>

alertWatchVideo ==
    /\ alert.kind = "video_triggered"
    /\ alert.checking \/ BagSize(checks) < MaxChecks
    /\ alert' = NoAlert
    /\ startCheck(alert.checking, alert.storyId)
    /\ UNCHANGED <<phase, userInput, storyData, videoTriggered,
                   sessionStoryIdRef, genReq, contReq, galleryVars, videoVars, routeVars,
                   showVideoPlayer>>

alertGenerateVideo ==
    /\ alert.kind = "video_not_ready"
    /\ alert' = generateVideo
    /\ UNCHANGED <<phase, userInput, storyData, videoTriggered,
                   isCheckingVideoStatus, sessionStoryIdRef, genReq, contReq,
                   checks, galleryVars, videoVars, routeVars,
                   showVideoPlayer>>

----------------------------------------------------------------------------
(* StoryScreen with the player modal: checkAndShowVideo and the render *)

\* the phases whose screen the component returns before it reaches the Modal
PhaseScreens == {"input", "loading", "reading", "choosing", "complete"}

\* <Modal visible={showVideoPlayer}> of the final return is on screen
playerModalVisible == showVideoPlayer /\ phase \notin PhaseScreens

\* checkAndShowVideo after the response was read as JSON, and its finally
checkAndShowVideoThenPlayer(c, data) ==
    /\ c.pc = "fetch"
    /\ checks' = BagRemove(checks, c)
    /\ isCheckingVideoStatus' = FALSE
    /\ IF data.status = "completed"
          /\ (Truthy(data.video_url) \/ Truthy(data.gcs_url))
       THEN /\ showVideoPlayer' = TRUE
            /\ UNCHANGED alert
       ELSE IF data.status \in {"processing", "started"}
       THEN /\ alert' = Alert("still_brewing")
            /\ UNCHANGED showVideoPlayer
       ELSE /\ showVideoPlayer' = TRUE
            /\ UNCHANGED alert
    /\ UNCHANGED <<phase, userInput, storyData, videoTriggered,
                   sessionStoryIdRef, genReq, contReq, galleryVars, videoVars, routeVars>>

----------------------------------------------------------------------------
(* Gallery store: the awaits of saveImageToGallery, and HistoryScreen *)

\* the getItem continuation pushing without the duplicate test
saveImageToGalleryGetItem_noDedupe(sv) ==
    /\ sv.pc = "getItem"
    /\ LET imageArray == IF IsSome(store) THEN JSONparse(store) ELSE <<>>
       IN saves' = BagAdd(BagRemove(saves, sv),
                          [sv EXCEPT !.pc = "setItem",
                                     !.imageArray = Append(imageArray, sv.imageUrl)])
    /\ UNCHANGED <<storyVars, store, clears, videoVars, routeVars>>

\* await AsyncStorage.getItem resolves; the duplicate test and the push
saveImageToGalleryGetItem(sv) ==
    /\ sv.pc = "getItem"
    /\ LET imageArray == IF IsSome(store) THEN JSONparse(store) ELSE <<>>
       IN IF ~includes(imageArray, sv.imageUrl)
          THEN saves' = BagAdd(BagRemove(saves, sv),
                               [sv EXCEPT !.pc = "setItem",
                                          !.imageArray = Append(imageArray, sv.imageUrl)])
          ELSE saves' = BagRemove(saves, sv)
    /\ UNCHANGED <<storyVars, store, clears, videoVars, routeVars>>

\* AsyncStorage.setItem writes the array this call built
saveImageToGallerySetItem(sv) ==
    /\ sv.pc = "setItem"
    /\ store' = JSONstringify(sv.imageArray)
    /\ saves' = BagRemove(saves, sv)
    /\ UNCHANGED <<storyVars, clears, videoVars, routeVars>>

\* saveImageToGallery's catch: AsyncStorage rejected
saveImageToGalleryCatch(sv) ==
    /\ saves' = BagRemove(saves, sv)
    /\ UNCHANGED <<storyVars, store, clears, videoVars, routeVars>>

\* HistoryScreen clearAllImages, 'Clear All' pressed
clearAllImages ==
    /\ clears = 0
    /\ clears' = 1
    /\ UNCHANGED <<storyVars, store, saves, videoVars, routeVars>>

\* AsyncStorage.removeItem('sessionImages') takes effect
clearAllImagesRemoveItem ==
    /\ clears = 1
    /\ clears' = 0
    /\ store' = None
    /\ UNCHANGED <<storyVars, saves, videoVars, routeVars>>

----------------------------------------------------------------------------
(* VideoPlayerScreen: the expo-av, expo-video and react-native-video variants *)

Variants == {"expo-av", "expo-video", "react-native-video"}
PlayerStoryIds == {"story_abc", "story_xyz"}
PlayerSceneCounts == {3, 10}
ServerMessages == {NULL, "Quota exceeded"}
PlayerVideoStatus == {"not_started", "processing", "completed", "error", "started"}
PlayerStatusData ==
    [status : PlayerVideoStatus, gcs_url : ServerGcsUrls,
     video_url : ServerVideoUrls, message : ServerMessages]
TriggerStatus == {"started", "processing", "not_ready", "error"}
TriggerData == [status : TriggerStatus, message : ServerMessages]

\* video-status requests in flight at once
MaxStatusReq == 2
\* generation-start requests in flight at once
MaxTriggerReq == 1

\* the state the component renders from
uiState ==
    [videoUrl |-> videoUrl, gcsUrl |-> gcsUrl, loading |-> loading,
     error |-> error, videoStatus |-> videoStatus]

\* state setters of an unmounted component have no effect
setState(st) ==
    IF mounted
    THEN /\ videoUrl' = st.videoUrl
         /\ gcsUrl' = st.gcsUrl
         /\ loading' = st.loading
         /\ error' = st.error
         /\ videoStatus' = st.videoStatus
    ELSE UNCHANGED <<videoUrl, gcsUrl, loading, error, videoStatus>>

\* checkVideoStatus(): the fetch of the closure's storyId
checkVideoStatusCall(closureStoryId) ==
    BagAdd(statusReq, [storyId |-> closureStoryId])

\* the completed branch of the expo-av variant
completedExpoAv(st, data) ==
    IF Truthy(data.gcs_url)
    THEN [st EXCEPT !.videoUrl = data.gcs_url, !.loading = FALSE, !.error = NULL]
    ELSE IF Truthy(data.video_url)
    THEN [st EXCEPT !.videoUrl = fullUrl(data.video_url), !.loading = FALSE,
                    !.error = NULL]
    ELSE [st EXCEPT !.error = "Video URL not available", !.loading = FALSE]

\* the completed branch of the expo-video variant
completedExpoVideo(st, data) ==
    LET st1 == IF Truthy(data.gcs_url) THEN [st EXCEPT !.gcsUrl = data.gcs_url]
               ELSE st
    IN IF isExpoGo
       THEN IF Truthy(data.gcs_url)
            THEN [st1 EXCEPT !.videoUrl = data.gcs_url, !.loading = FALSE,
                             !.error = NULL]
            ELSE [st1 EXCEPT
                    !.error = "Video playback not available in Expo Go - GCS URL required",
                    !.loading = FALSE]
       ELSE IF Truthy(data.video_url)
            THEN [st1 EXCEPT !.videoUrl = fullUrl(data.video_url),
                             !.loading = FALSE, !.error = NULL]
            ELSE IF Truthy(data.gcs_url)
            THEN [st1 EXCEPT !.videoUrl = data.gcs_url, !.loading = FALSE,
                             !.error = NULL]
            ELSE [st1 EXCEPT !.error = "Video URL not available",
                             !.loading = FALSE]

\* the completed branch of the react-native-video variant
completedRNVideo(st, data) ==
    IF Truthy(data.video_url)
    THEN [st EXCEPT !.videoUrl = API_URL \o data.video_url, !.loading = FALSE]
    ELSE st

\* does the completed branch reach clearInterval(checkInterval.current)
completedClearsInterval(data) ==
    CASE variant = "expo-av" -> Truthy(data.gcs_url) \/ Truthy(data.video_url)
      [] variant = "expo-video" -> TRUE
      [] OTHER -> Truthy(data.video_url)

\* the state after checkVideoStatus handled the response
statusHandled(st, data) ==
    LET st0 == [st EXCEPT !.videoStatus = data.status]
    IN IF data.status = "completed"
       THEN CASE variant = "expo-av" -> completedExpoAv(st0, data)
              [] variant = "expo-video" -> completedExpoVideo(st0, data)
              [] OTHER -> completedRNVideo(st0, data)
       ELSE IF data.status = "error"
       THEN [st0 EXCEPT !.error = OrStr(data.message, "Video generation failed"),
                        !.loading = FALSE]
       ELSE st0

\* triggerVideoGeneration(): the POST of the closure's storyId
triggerVideoGenerationCall(closureStoryId) ==
    BagAdd(triggerReq, [storyId |-> closureStoryId])

\* checkVideoStatus after the response was read as JSON
checkVideoStatusThen(req, data) ==
    /\ statusReq' = BagRemove(statusReq, req)
    /\ setState(statusHandled(uiState, data))
    /\ checkInterval' =
          IF data.status = "completed" /\ completedClearsInterval(data)
          THEN [checkInterval EXCEPT !.live = FALSE]
          ELSE checkInterval
    /\ triggerReq' =
          IF data.status = "not_started"
          THEN triggerVideoGenerationCall(req.storyId)
          ELSE triggerReq
    /\ UNCHANGED <<storyVars, galleryVars, routeVars, variant, isExpoGo, mounted,
                   storyId, sceneCount>>

\* checkVideoStatus's catch: fetch rejected or body not JSON
checkVideoStatusCatch(req) ==
    /\ statusReq' = BagRemove(statusReq, req)
    /\ setState([uiState EXCEPT !.error = "Failed to check video status",
                                !.loading = FALSE])
    /\ UNCHANGED <<storyVars, galleryVars, routeVars, variant, isExpoGo, mounted,
                   storyId, sceneCount, checkInterval, triggerReq>>

\* "Need ${10 - sceneCount} more scenes for video generation"
needMoreScenes(n) ==
    IF 10 - n = 7 THEN "Need 7 more scenes for video generation"
    ELSE "Need 0 more scenes for video generation"

\* the state after triggerVideoGeneration handled the response
triggerHandled(st, data) ==
    IF variant = "react-native-video"
    THEN IF data.status \in {"started", "processing"}
         THEN [st EXCEPT !.videoStatus = "processing"]
         ELSE IF data.status = "not_ready"
         THEN [st EXCEPT !.error = needMoreScenes(sceneCount), !.loading = FALSE]
         ELSE st
    ELSE IF data.status = "started"
         THEN [st EXCEPT !.videoStatus = "processing"]
         ELSE [st EXCEPT !.error = OrStr(data.message,
                                         "Failed to start video generation")]

\* the state after triggerVideoGeneration's catch
triggerFailed(st) ==
    IF variant = "react-native-video"
    THEN [st EXCEPT !.error = "Failed to start video generation",
                    !.loading = FALSE]
    ELSE [st EXCEPT !.error = "Failed to start video generation"]

triggerVideoGenerationThen(req, data) ==
    /\ triggerReq' = BagRemove(triggerReq, req)
    /\ setState(triggerHandled(uiState, data))
    /\ UNCHANGED <<storyVars, galleryVars, routeVars, variant, isExpoGo, mounted,
                   storyId, sceneCount, checkInterval, statusReq>>

triggerVideoGenerationCatch(req) ==
    /\ triggerReq' = BagRemove(triggerReq, req)
    /\ setState(triggerFailed(uiState))
    /\ UNCHANGED <<storyVars, galleryVars, routeVars, variant, isExpoGo, mounted,
                   storyId, sceneCount, checkInterval, statusReq>>

\* the callback given to setInterval: it tests the videoStatus of the render
\* the effect ran in
intervalPolls(interval) == interval.videoStatus = "processing"

\* a tick of the interval
timerTick ==
    /\ checkInterval.live
    /\ IF intervalPolls(checkInterval)
       THEN /\ BagSize(statusReq) < MaxStatusReq
            /\ statusReq' = checkVideoStatusCall(checkInterval.storyId)
       ELSE UNCHANGED statusReq
    /\ UNCHANGED <<storyVars, galleryVars, routeVars, variant, isExpoGo, mounted,
                   storyId, sceneCount, videoUrl, gcsUrl, loading, error,
                   videoStatus, checkInterval, triggerReq>>

\* useEffect(..., [storyId]) when the prop changes: cleanup, then the effect
storyIdChange(newId) ==
    /\ mounted
    /\ newId # storyId
    /\ BagSize(statusReq) < MaxStatusReq
    /\ storyId' = newId
    /\ statusReq' = checkVideoStatusCall(newId)
    /\ checkInterval' = [live |-> TRUE, videoStatus |-> videoStatus,
                         storyId |-> newId]
    /\ UNCHANGED <<storyVars, galleryVars, routeVars, variant, isExpoGo, mounted,
                   sceneCount, videoUrl, gcsUrl, loading, error, videoStatus,
                   triggerReq>>

\* the view the variant renders
view ==
    IF variant = "react-native-video"
    THEN { v \in {"generating", "player", "error", "checking"} :
             \/ v = "generating" /\ loading /\ videoStatus = "processing"
             \/ v = "player" /\ ~loading /\ Truthy(videoUrl)
             \/ v = "error" /\ ~loading /\ Truthy(error)
             \/ v = "checking" /\ loading /\ videoStatus = "checking" }
    ELSE IF loading THEN {"loading"}
    ELSE IF Truthy(error) THEN {"error"}
    ELSE IF Truthy(videoUrl) THEN {"player"}
    ELSE {}

\* 'Try Again' of the error view (expo-av, expo-video)
retryVideoGeneration ==
    /\ mounted
    /\ variant # "react-native-video"
    /\ "error" \in view
    /\ BagSize(statusReq) < MaxStatusReq
    /\ error' = NULL
    /\ loading' = TRUE
    /\ videoStatus' = "checking"
    /\ statusReq' = checkVideoStatusCall(storyId)
    /\ UNCHANGED <<storyVars, galleryVars, routeVars, variant, isExpoGo, mounted,
                   storyId, sceneCount, videoUrl, gcsUrl, checkInterval,
                   triggerReq>>

\* 'Generate Video' of the error view (react-native-video)
generateVideoButton ==
    /\ mounted
    /\ variant = "react-native-video"
    /\ "error" \in view
    /\ videoStatus = "not_started" /\ sceneCount >= 10
    /\ BagSize(triggerReq) < MaxTriggerReq
    /\ triggerReq' = triggerVideoGenerationCall(storyId)
    /\ UNCHANGED <<storyVars, galleryVars, routeVars, variant, isExpoGo, mounted,
                   storyId, sceneCount, videoUrl, gcsUrl, loading, error,
                   videoStatus, checkInterval, statusReq>>

\* the player reports a playback error (handleVideoError, onVideoError)
handleVideoError ==
    /\ mounted
    /\ "player" \in view
    /\ ~(variant = "expo-video" /\ isExpoGo)
    /\ error' = IF variant = "react-native-video" THEN "Failed to play video"
                ELSE "Failed to play video. Please try again."
    /\ loading' = IF variant = "react-native-video" THEN FALSE ELSE loading
    /\ UNCHANGED <<storyVars, galleryVars, routeVars, variant, isExpoGo, mounted,
                   storyId, sceneCount, videoUrl, gcsUrl, videoStatus,
                   checkInterval, statusReq, triggerReq>>

\* a dismissal whose cleanup leaves the interval running
unmount_keepsInterval ==
    /\ mounted
    /\ mounted' = FALSE
    /\ UNCHANGED <<storyVars, galleryVars, routeVars, variant, isExpoGo, storyId,
                   sceneCount, videoUrl, gcsUrl, loading, error, videoStatus,
                   checkInterval, statusReq, triggerReq>>

\* onClose: the screen is dismissed and the effect's cleanup runs
unmount ==
    /\ mounted
    /\ mounted' = FALSE
    /\ checkInterval' = [checkInterval EXCEPT !.live = FALSE]
    /\ UNCHANGED <<storyVars, galleryVars, routeVars, variant, isExpoGo, storyId,
                   sceneCount, videoUrl, gcsUrl, loading, error, videoStatus,
                   statusReq, triggerReq>>

\* the URL the screen plays, or opens in the browser under Expo Go
presentedUrl ==
    IF variant = "expo-video" /\ isExpoGo
    THEN OrStr(gcsUrl, videoUrl)
    ELSE videoUrl

----------------------------------------------------------------------------
(* StoryScreen (route-driven) *)

RouteThemes == {"adventure", "space"}

RouteGenerateData ==
    [story_id : {"story_abc", "story_xyz"},
     paragraphs : {SubSeq(ParagraphTexts, 1, 2)},
     choices : {Some(<<"Open The Door">>)},
     current_paragraph : {0}, is_complete : {FALSE},
     scene_count : {NoInt, 1}, image_url : ServerImageUrls]

RouteContinueData ==
    [paragraphs : {ParagraphTexts},
     choices : {None, Some(<<"Open The Door">>)},
     current_paragraph : {2}, is_complete : BOOLEAN,
     scene_count : {NoInt, 10}, image_url : ServerImageUrls,
     video_trigger : BOOLEAN]

\* the fields of a response that end up in the story state
storyOf(data) ==
    [story_id |-> data.story_id, paragraphs |-> data.paragraphs,
     choices |-> data.choices, current_paragraph |-> data.current_paragraph,
     is_complete |-> data.is_complete]

\* {...prev, [index]: imageUrl} on storyImages, kept as index/URL pairs
withImage(images, index, imageUrl) ==
    { im \in images : im[1] # index } \cup { <<index, imageUrl>> }

\* storyImages[currentParagraph] || storyImages[0] is defined
currentImageShown ==
    \E im \in screen.storyImages :
        im[1] = screen.currentParagraph \/ im[1] = 0

\* the story content is on screen and can be touched
RouteUIFree ==
    /\ screen.mounted
    /\ ~screen.loading
    /\ ~screen.showVideoPlayer
    /\ routeAlert = "none"

\* the route param changes: useEffect(() => generateStory(), [theme])
themeChange(newTheme) ==
    /\ screen.mounted
    /\ newTheme # theme
    /\ theme' = newTheme
    /\ screen' = [screen EXCEPT !.loading = TRUE]
    /\ routeGenReq' = BagAdd(routeGenReq, [theme |-> newTheme])
    /\ UNCHANGED <<storyVars, galleryVars, videoVars, routeContReq,
                   routeAlert>>

\* generateStory after the response was read as JSON, and its finally
generateStoryRouteThen(req, data) ==
    /\ routeGenReq' = BagRemove(routeGenReq, req)
    /\ screen' = [screen EXCEPT
          !.story = Some(storyOf(data)),
          !.currentParagraph = 0,
          !.sceneCount = OrInt(data.scene_count, 1),
          !.storyImages = IF Truthy(data.image_url)
                          THEN withImage(screen.storyImages, 0, data.image_url)
                          ELSE screen.storyImages,
          !.loading = FALSE]
    /\ UNCHANGED <<storyVars, galleryVars, videoVars, theme, routeContReq,
                   routeAlert>>

\* generateStory's catch and finally: fetch rejected or body not JSON
generateStoryRouteCatch(req) ==
    /\ routeGenReq' = BagRemove(routeGenReq, req)
    /\ routeAlert' = "generate_error"
    /\ screen' = [screen EXCEPT !.loading = FALSE]
    /\ UNCHANGED <<storyVars, galleryVars, videoVars, theme, routeContReq>>

\* disabled={imageLoading || selectedChoice !== null} of the choice buttons
choiceButtonsDisabled(st) == st.imageLoading \/ st.selectedChoice # NULL

\* the choice buttons are rendered
choiceButtonsShown(st) ==
    /\ IsSome(st.story)
    /\ ~Get(st.story).is_complete
    /\ IsSome(Get(st.story).choices)
    /\ Len(Get(Get(st.story).choices)) > 0

\* handleChoice up to its fetch: the request body and the render closure
handleChoiceRoute(choiceIndex) ==
    /\ RouteUIFree
    /\ choiceButtonsShown(screen)
    /\ ~choiceButtonsDisabled(screen)
    /\ choiceIndex \in 1..Len(Get(Get(screen.story).choices))
    /\ LET choice == Get(Get(screen.story).choices)[choiceIndex]
       IN /\ screen' = [screen EXCEPT !.selectedChoice = choice,
                                      !.imageLoading = TRUE]
          /\ routeContReq' = BagAdd(routeContReq,
                [choice |-> choice,
                 story_id |-> Get(screen.story).story_id,
                 current_paragraph |-> screen.currentParagraph,
                 sceneCount |-> screen.sceneCount,
                 videoTriggered |-> screen.videoTriggered])
    /\ UNCHANGED <<storyVars, galleryVars, videoVars, theme, routeGenReq,
                   routeAlert>>

\* setStory(prev => ({...prev, ...})) of handleChoice
continuedRouteStory(prev, data) ==
    IF IsSome(prev)
    THEN Some([Get(prev) EXCEPT
                 !.paragraphs = data.paragraphs,
                 !.choices = data.choices,
                 !.current_paragraph = data.current_paragraph,
                 !.is_complete = data.is_complete])
    ELSE Some([story_id |-> NULL, paragraphs |-> data.paragraphs,
               choices |-> data.choices,
               current_paragraph |-> data.current_paragraph,
               is_complete |-> data.is_complete])

\* handleChoice after the response was read as JSON, and its finally
handleChoiceRouteThen(req, data) ==
    /\ routeContReq' = BagRemove(routeContReq, req)
    /\ screen' = [screen EXCEPT
          !.story = continuedRouteStory(screen.story, data),
          !.sceneCount = OrInt(data.scene_count, req.sceneCount + 1),
          !.storyImages = IF Truthy(data.image_url)
                          THEN withImage(screen.storyImages,
                                         data.current_paragraph, data.image_url)
                          ELSE screen.storyImages,
          !.videoTriggered = IF data.video_trigger /\ ~req.videoTriggered
                             THEN TRUE ELSE screen.videoTriggered,
          !.currentParagraph = data.current_paragraph,
          !.selectedChoice = NULL,
          !.imageLoading = FALSE]
    /\ routeAlert' = IF data.video_trigger /\ ~req.videoTriggered
                     THEN "video_triggered" ELSE routeAlert
    /\ UNCHANGED <<storyVars, galleryVars, videoVars, theme, routeGenReq>>

\* handleChoice's catch and finally: fetch rejected or body not JSON
handleChoiceRouteCatch(req) ==
    /\ routeContReq' = BagRemove(routeContReq, req)
    /\ routeAlert' = "continue_error"
    /\ screen' = [screen EXCEPT !.imageLoading = FALSE]
    /\ UNCHANGED <<storyVars, galleryVars, videoVars, theme, routeGenReq>>

\* <Image onLoadStart={() => setImageLoading(true)}>
onLoadStart ==
    /\ screen.mounted
    /\ ~screen.loading
    /\ IsSome(screen.story)
    /\ currentImageShown
    /\ ~screen.imageLoading
    /\ screen' = [screen EXCEPT !.imageLoading = TRUE]
    /\ UNCHANGED <<storyVars, galleryVars, videoVars, theme, routeGenReq,
                   routeContReq, routeAlert>>

\* <Image onLoadEnd={() => setImageLoading(false)}>
onLoadEnd ==
    /\ screen.mounted
    /\ ~screen.loading
    /\ IsSome(screen.story)
    /\ currentImageShown
    /\ screen.imageLoading
    /\ screen' = [screen EXCEPT !.imageLoading = FALSE]
    /\ UNCHANGED <<storyVars, galleryVars, videoVars, theme, routeGenReq,
                   routeContReq, routeAlert>>

\* the buttons of the Alert the route-driven screen put up
routeAlertDismiss ==
    /\ routeAlert # "none"
    /\ routeAlert' = "none"
    /\ UNCHANGED <<storyVars, galleryVars, videoVars, theme, screen,
                   routeGenReq, routeContReq>>

routeAlertWatchVideo ==
    /\ routeAlert = "video_triggered"
    /\ routeAlert' = "none"
    /\ screen' = [screen EXCEPT !.showVideoPlayer = TRUE]
    /\ UNCHANGED <<storyVars, galleryVars, videoVars, theme, routeGenReq,
                   routeContReq>>

\* 'Watch Video' of the scene counter and of the complete view
watchVideoButton ==
    /\ RouteUIFree
    /\ IsSome(screen.story)
    /\ screen.sceneCount >= 10
    /\ screen' = [screen EXCEPT !.showVideoPlayer = TRUE]
    /\ UNCHANGED <<storyVars, galleryVars, videoVars, theme, routeGenReq,
                   routeContReq, routeAlert>>

\* onClose / onRequestClose of the player modal
closeVideoPlayer ==
    /\ screen.mounted
    /\ screen.showVideoPlayer
    /\ ~screen.loading
    /\ routeAlert = "none"
    /\ screen' = [screen EXCEPT !.showVideoPlayer = FALSE]
    /\ UNCHANGED <<storyVars, galleryVars, videoVars, theme, routeGenReq,
                   routeContReq, routeAlert>>

----------------------------------------------------------------------------
(* Initial states *)

storyInit ==
    /\ phase = "input"
    /\ userInput = 0
    /\ storyData = initialStoryData
    /\ videoTriggered = FALSE
    /\ isCheckingVideoStatus = FALSE
    /\ sessionStoryIdRef = NULL
    /\ showVideoPlayer = FALSE
    /\ genReq = EmptyBag
    /\ contReq = EmptyBag
    /\ checks = EmptyBag
    /\ alert = NoAlert

galleryInit ==
    /\ store = None
    /\ saves = EmptyBag
    /\ clears = 0

\* no VideoPlayerScreen on screen
videoIdle ==
    /\ variant = "expo-av"
    /\ isExpoGo = FALSE
    /\ mounted = FALSE
    /\ storyId = "story_abc"
    /\ sceneCount = 10
    /\ videoUrl = NULL
    /\ gcsUrl = NULL
    /\ loading = TRUE
    /\ error = NULL
    /\ videoStatus = "checking"
    /\ checkInterval = [live |-> FALSE, videoStatus |-> "checking",
                        storyId |-> "story_abc"]
    /\ statusReq = EmptyBag
    /\ triggerReq = EmptyBag

\* the VideoPlayerScreen after its first render and effect (only the
\* react-native-video variant reads sceneCount outside its texts)
videoMounted ==
    /\ variant \in Variants
    /\ isExpoGo \in IF variant = "expo-video" THEN BOOLEAN ELSE {FALSE}
    /\ mounted = TRUE
    /\ storyId \in PlayerStoryIds
    /\ sceneCount \in IF variant = "react-native-video"
                      THEN PlayerSceneCounts ELSE {10}
    /\ videoUrl = NULL
    /\ gcsUrl = NULL
    /\ loading = TRUE
    /\ error = NULL
    /\ videoStatus = "checking"
    /\ checkInterval = [live |-> TRUE, videoStatus |-> "checking",
                        storyId |-> storyId]
    /\ statusReq = SetToBag({[storyId |-> storyId]})
    /\ triggerReq = EmptyBag

\* the useState values of the route-driven StoryScreen
initialScreen ==
    [mounted |-> FALSE, story |-> None, currentParagraph |-> 0,
     loading |-> TRUE, imageLoading |-> FALSE, selectedChoice |-> NULL,
     storyImages |-> {}, sceneCount |-> 0, showVideoPlayer |-> FALSE,
     videoTriggered |-> FALSE]

\* no route-driven StoryScreen in the build
routeIdle ==
    /\ theme = "adventure"
    /\ screen = initialScreen
    /\ routeGenReq = EmptyBag
    /\ routeContReq = EmptyBag
    /\ routeAlert = "none"

\* the route-driven StoryScreen after its first render and effect
routeMounted ==
    /\ theme \in RouteThemes
    /\ screen = [initialScreen EXCEPT !.mounted = TRUE]
    /\ routeGenReq = SetToBag({[theme |-> theme]})
    /\ routeContReq = EmptyBag
    /\ routeAlert = "none"

----------------------------------------------------------------------------
(* SpecStory: the story session against every server response, with no     *)
(* illustration sent and the watch button left alone                       *)

StoryGenerateResults ==
    [story_id : GenStoryIds, paragraphs : ServerParagraphs,
     choices : ServerChoices, image_url : {NULL}, image_generated : {FALSE}]

StoryContinueResults ==
    [story_id : ContStoryIds, paragraphs : ServerParagraphs,
     current_paragraph : ServerCurrentParagraph, choices : ServerChoices,
     image_url : {NULL}, image_generated : {FALSE}, video_trigger : BOOLEAN]

InitStory == storyInit /\ galleryInit /\ videoIdle /\ routeIdle

NextStory ==
    \/ \E len \in ThemeLengths : setUserInput(len)
    \/ generateStory
    \/ \E req \in DOMAIN genReq, result \in StoryGenerateResults,
          fallbackId \in FallbackStoryIds :
            generateStoryThen(req, result, fallbackId)
    \/ \E req \in DOMAIN genReq : generateStoryCatch(req)
    \/ handleNext
    \/ \E choiceIndex \in 1..3 : handleChoice(choiceIndex)
    \/ \E req \in DOMAIN contReq, result \in StoryContinueResults :
            handleChoiceThen(req, result)
    \/ \E req \in DOMAIN contReq :
            Len(storyData.paragraphs) < MaxStoryLen /\ handleChoiceCatch(req)
    \/ resetStory
    \/ alertDismiss
    \/ alertTryAgain

SpecStory == InitStory /\ [][NextStory]_vars

----------------------------------------------------------------------------
(* SpecStoryFair: SpecStory with a user who keeps tapping next, selects an  *)
(* offered choice and closes every dialog, and a server that answers every  *)
(* request, with a response or with a failure                               *)

userTaps ==
    \/ handleNext
    \/ \E choiceIndex \in 1..3 : handleChoice(choiceIndex)
    \/ alertDismiss

serverAnswers ==
    \/ \E req \in DOMAIN genReq, result \in StoryGenerateResults,
          fallbackId \in FallbackStoryIds :
            generateStoryThen(req, result, fallbackId)
    \/ \E req \in DOMAIN genReq : generateStoryCatch(req)
    \/ \E req \in DOMAIN contReq, result \in StoryContinueResults :
            handleChoiceThen(req, result)
    \/ \E req \in DOMAIN contReq :
            Len(storyData.paragraphs) < MaxStoryLen /\ handleChoiceCatch(req)

SpecStoryFair ==
    /\ InitStory
    /\ [][NextStory]_vars
    /\ WF_vars(userTaps)
    /\ WF_vars(serverAnswers)

----------------------------------------------------------------------------
(* SpecApp: every operation of the StoryScreen and of the gallery, against *)
(* a server that sends one story shape, for sessions of a few choices      *)

\* choices the user makes in one session
MaxSessionChoices == 2

AppGenerateResults ==
    [story_id : {NULL, "story_abc"},
     paragraphs : {Some(SubSeq(ParagraphTexts, 1, 1))},
     choices : {Some(<<"Open The Door">>)},
     image_url : ServerImageUrls, image_generated : {TRUE}]

AppContinueResults ==
    [story_id : {NULL, "story_xyz"},
     paragraphs : {Some(SubSeq(ParagraphTexts, 1, 2))},
     current_paragraph : {1}, choices : {None, Some(<<"Open The Door">>)},
     image_url : ServerImageUrls, image_generated : {TRUE},
     video_trigger : BOOLEAN]

AppVideoStatusData ==
    [status : ServerVideoStatus, gcs_url : ServerGcsUrls,
     video_url : {NULL, "/videos/story.mp4"}]

\* a response that starts a save is delivered while a save slot is free
SaveSlotFor(result) == ~Truthy(result.image_url) \/ BagSize(saves) < MaxSaves

InitApp == storyInit /\ galleryInit /\ videoIdle /\ routeIdle

NextApp ==
    \/ \E len \in ThemeLengths : setUserInput(len)
    \/ generateStory
    \/ \E req \in DOMAIN genReq, result \in AppGenerateResults,
          fallbackId \in FallbackStoryIds :
            SaveSlotFor(result) /\ generateStoryThen(req, result, fallbackId)
    \/ \E req \in DOMAIN genReq : generateStoryCatch(req)
    \/ handleNext
    \/ \E choiceIndex \in 1..3 :
            storyData.iteration <= MaxSessionChoices /\ handleChoice(choiceIndex)
    \/ \E req \in DOMAIN contReq, result \in AppContinueResults :
            SaveSlotFor(result) /\ handleChoiceThen(req, result)
    \/ \E req \in DOMAIN contReq : handleChoiceCatch(req)
    \/ resetStory
    \/ checkAndShowVideo
    \/ \E c \in DOMAIN checks, data \in AppVideoStatusData :
            checkAndShowVideoThen(c, data)
    \/ \E c \in DOMAIN checks : checkAndShowVideoCatch(c)
    \/ \E c \in DOMAIN checks : browserClosed(c)
    \/ alertDismiss
    \/ alertTryAgain
    \/ alertWatchVideo
    \/ alertGenerateVideo
    \/ \E sv \in DOMAIN saves : saveImageToGalleryGetItem(sv)
    \/ \E sv \in DOMAIN saves : saveImageToGallerySetItem(sv)
    \/ \E sv \in DOMAIN saves : saveImageToGalleryCatch(sv)

SpecApp == InitApp /\ [][NextApp]_vars

----------------------------------------------------------------------------
(* SpecModal: the StoryScreen that shows the video in a player modal; it   *)
(* keeps no gallery                                                        *)

ModalGenerateResults == { r \in AppGenerateResults : r.image_url = NULL }
ModalContinueResults == { r \in AppContinueResults : r.image_url = NULL }

InitModal == storyInit /\ galleryInit /\ videoIdle /\ routeIdle

NextModal ==
    \/ \E len \in ThemeLengths : setUserInput(len)
    \/ generateStory
    \/ \E req \in DOMAIN genReq, result \in ModalGenerateResults,
          fallbackId \in FallbackStoryIds :
            generateStoryThen(req, result, fallbackId)
    \/ \E req \in DOMAIN genReq : generateStoryCatch(req)
    \/ handleNext
    \/ \E choiceIndex \in 1..3 :
            storyData.iteration <= MaxSessionChoices /\ handleChoice(choiceIndex)
    \/ \E req \in DOMAIN contReq, result \in ModalContinueResults :
            handleChoiceThen(req, result)
    \/ \E req \in DOMAIN contReq : handleChoiceCatch(req)
    \/ resetStory
    \/ checkAndShowVideo
    \/ \E c \in DOMAIN checks, data \in AppVideoStatusData :
            checkAndShowVideoThenPlayer(c, data)
    \/ \E c \in DOMAIN checks : checkAndShowVideoCatch(c)
    \/ alertDismiss
    \/ alertTryAgain
    \/ alertWatchVideo

SpecModal == InitModal /\ [][NextModal]_vars

----------------------------------------------------------------------------
(* SpecGallery: the gallery store under overlapping saves and clears       *)

GalleryUrls ==
    {"/images/scene.png", "/images/castle.png", "/images/forest.png"}

\* saveImageToGallery(result.image_url) as generateStory and handleChoice
\* call it, without awaiting it
saveImageToGallery(imageUrl) ==
    /\ BagSize(saves) < MaxSaves
    /\ saves' = saveImageToGalleryCall(imageUrl)
    /\ UNCHANGED <<storyVars, store, clears, videoVars, routeVars>>

InitGallery == storyInit /\ galleryInit /\ videoIdle /\ routeIdle

NextGallery ==
    \/ \E imageUrl \in GalleryUrls \cup {NULL} : saveImageToGallery(imageUrl)
    \/ \E sv \in DOMAIN saves : saveImageToGalleryGetItem(sv)
    \/ \E sv \in DOMAIN saves : saveImageToGallerySetItem(sv)
    \/ \E sv \in DOMAIN saves : saveImageToGalleryCatch(sv)
    \/ clearAllImages
    \/ clearAllImagesRemoveItem

SpecGallery == InitGallery /\ [][NextGallery]_vars

----------------------------------------------------------------------------
(* SpecSaves: overlapping saves into a gallery store that is never cleared *)

InitSaves == storyInit /\ galleryInit /\ videoIdle /\ routeIdle

NextSaves ==
    \/ \E imageUrl \in GalleryUrls \cup {NULL} : saveImageToGallery(imageUrl)
    \/ \E sv \in DOMAIN saves : saveImageToGalleryGetItem(sv)
    \/ \E sv \in DOMAIN saves : saveImageToGallerySetItem(sv)
    \/ \E sv \in DOMAIN saves : saveImageToGalleryCatch(sv)

SpecSaves == InitSaves /\ [][NextSaves]_vars

----------------------------------------------------------------------------
(* SpecVideo: one VideoPlayerScreen from its mount on                      *)

InitVideo == storyInit /\ galleryInit /\ videoMounted /\ routeIdle

NextVideo ==
    \/ \E req \in DOMAIN statusReq, data \in PlayerStatusData :
            (data.status = "not_started" => BagSize(triggerReq) < MaxTriggerReq)
            /\ checkVideoStatusThen(req, data)
    \/ \E req \in DOMAIN statusReq : checkVideoStatusCatch(req)
    \/ \E req \in DOMAIN triggerReq, data \in TriggerData :
            triggerVideoGenerationThen(req, data)
    \/ \E req \in DOMAIN triggerReq : triggerVideoGenerationCatch(req)
    \/ timerTick
    \/ \E newId \in PlayerStoryIds : storyIdChange(newId)
    \/ retryVideoGeneration
    \/ generateVideoButton
    \/ handleVideoError
    \/ unmount

SpecVideo == InitVideo /\ [][NextVideo]_vars

----------------------------------------------------------------------------
(* SpecRoute: the route-driven StoryScreen from its mount on               *)

\* generate-story requests of the route-driven screen in flight at once
MaxThemeReq == 1

InitRoute == storyInit /\ galleryInit /\ videoIdle /\ routeMounted

NextRoute ==
    \/ \E newTheme \in RouteThemes :
            BagSize(routeGenReq) < MaxThemeReq /\ themeChange(newTheme)
    \/ \E req \in DOMAIN routeGenReq, data \in RouteGenerateData :
            generateStoryRouteThen(req, data)
    \/ \E req \in DOMAIN routeGenReq : generateStoryRouteCatch(req)
    \/ \E choiceIndex \in 1..3 :
            screen.sceneCount <= MaxSessionChoices
            /\ handleChoiceRoute(choiceIndex)
    \/ \E req \in DOMAIN routeContReq, data \in RouteContinueData :
            handleChoiceRouteThen(req, data)
    \/ \E req \in DOMAIN routeContReq : handleChoiceRouteCatch(req)
    \/ onLoadStart
    \/ onLoadEnd
    \/ routeAlertDismiss
    \/ routeAlertWatchVideo
    \/ watchVideoButton
    \/ closeVideoPlayer

SpecRoute == InitRoute /\ [][NextRoute]_vars

----------------------------------------------------------------------------
(* SpecScreens: the app built with the phase-driven StoryScreen or with    *)
(* the route-driven one                                                    *)

InitScreens ==
    storyInit /\ galleryInit /\ videoIdle /\ (routeIdle \/ routeMounted)

NextScreens ==
    \/ ~screen.mounted /\ NextApp
    \/ screen.mounted /\ NextRoute

SpecScreens == InitScreens /\ [][NextScreens]_vars

----------------------------------------------------------------------------
(* Properties *)

SessionPhases == {"reading", "choosing", "complete"}
lastParagraph == storyData.paragraphs[Len(storyData.paragraphs)]
isFiller(p) == startsWith(p, "You chose to ")

\* C1: submitting a theme of at most 200 characters in phase input moves
\* the phase to loading, and the phase never goes from input to any phase
\* other than loading.
C1_SubmitEntersLoading ==
    [][ /\ (phase = "input" /\ userInput <= maxLength /\ generateStory)
            => (phase' = "loading" /\ BagSize(genReq') = BagSize(genReq) + 1)
        /\ (phase = "input" /\ phase' # "input") => phase' = "loading" ]_vars

\* a theme of 200 characters was submitted and its request is in flight
C1_Witness ==
    phase = "loading" /\ userInput = maxLength /\ BagSize(genReq) = 1

\* C2: within a session iteration never decreases: a handled choice (a
\* continue-story response or the failure fallback) raises it by exactly 1,
\* and next, the video check, the dialogs and the gallery saves leave it.
C2_IterationMonotone ==
    [][ LET handled ==
              \E req \in DOMAIN contReq :
                  \/ handleChoiceCatch(req)
                  \/ \E result \in AppContinueResults :
                        handleChoiceThen(req, result)
            newSession ==
              \/ resetStory
              \/ \E req \in DOMAIN genReq, result \in AppGenerateResults,
                    fallbackId \in FallbackStoryIds :
                      generateStoryThen(req, result, fallbackId)
        IN /\ handled => storyData'.iteration = storyData.iteration + 1
           /\ ~newSession => storyData'.iteration >= storyData.iteration
           /\ (~newSession /\ ~handled)
                => storyData'.iteration = storyData.iteration ]_vars

\* two choices were handled, a save and a video check are under way
C2_Witness ==
    /\ phase = "reading"
    /\ storyData.iteration = 3
    /\ BagSize(saves) > 0
    /\ BagSize(checks) > 0

\* C3 as stated: a handled choice makes choices absent only when iteration
\* has reached exactly maxIterations.
C3_Original ==
    [][ (phase = "loading" /\ BagSize(contReq) > 0 /\ phase' = "reading"
         /\ IsSome(storyData.choices) /\ ~IsSome(storyData'.choices))
            => storyData'.iteration = storyData.maxIterations ]_vars

\* C3 amended: the failure fallback leaves choices absent exactly when it
\* raises iteration to maxIterations; below maxIterations choices becomes
\* absent only through a continue-story response that carries no choices.
C3_FallbackEndsAtMax ==
    [][ \A req \in DOMAIN contReq :
            handleChoiceCatch(req)
                => /\ ~IsSome(storyData'.choices)
                      <=> storyData'.iteration >= storyData.maxIterations
                   /\ storyData'.iteration <= storyData.maxIterations ]_vars

\* the fallback has raised iteration to 10 and removed the choices
C3_Witness ==
    /\ phase = "reading"
    /\ storyData.iteration = storyData.maxIterations
    /\ ~IsSome(storyData.choices)
    /\ Len(storyData.paragraphs) > 0
    /\ isFiller(lastParagraph)

\* C4 as stated: whenever iteration >= maxIterations in a session, choices
\* is absent.
C4_Original ==
    (phase \in SessionPhases /\ storyData.iteration >= storyData.maxIterations)
        => ~IsSome(storyData.choices)

\* C5 as stated: whenever a session exists, currentParagraph is an index of
\* paragraphs.
C5_Original ==
    phase \in SessionPhases
        => storyData.currentParagraph < Len(storyData.paragraphs)

\* C6: the persisted sessionImages array never holds an URL twice.
C6_NoDuplicateUrls ==
    IsSome(store)
        => \A i, j \in 1..Len(JSONparse(store)) :
              i # j => JSONparse(store)[i] # JSONparse(store)[j]

\* an URL is stored and an overlapping save of the same URL, which read the
\* store before, is about to write
C6_Witness ==
    /\ IsSome(store)
    /\ \E sv \in DOMAIN saves :
          sv.pc = "setItem" /\ includes(JSONparse(store), sv.imageUrl)

\* C7 as stated: a completed response that carries gcs_url and video_url
\* makes the screen present gcs_url.
C7_Original ==
    [][ \A req \in DOMAIN statusReq, data \in PlayerStatusData :
            (mounted /\ data.status = "completed" /\ Truthy(data.gcs_url)
             /\ Truthy(data.video_url) /\ checkVideoStatusThen(req, data))
                => presentedUrl' = data.gcs_url ]_vars

\* C8 as stated: with completed as the observed status, no tick of the
\* timer issues a video-status request.
C8_Original ==
    [][ (mounted /\ videoStatus = "completed" /\ timerTick)
            => statusReq' = statusReq ]_vars

\* C9 as stated: while the observed status is processing, a tick of the
\* live timer issues a video-status request.
C9_Original ==
    (mounted /\ checkInterval.live /\ videoStatus = "processing")
        => intervalPolls(checkInterval)

\* what every failure fallback leaves: one filler paragraph appended,
\* shown as the current one, in phase reading
fillerAppended ==
    /\ Len(storyData'.paragraphs) = Len(storyData.paragraphs) + 1
    /\ SubSeq(storyData'.paragraphs, 1, Len(storyData.paragraphs))
          = storyData.paragraphs
    /\ isFiller(storyData'.paragraphs[Len(storyData'.paragraphs)])
    /\ storyData'.currentParagraph = Len(storyData'.paragraphs) - 1
    /\ phase' = "reading"

\* C10 as stated: a failed continue-story call at any iteration 1..9 leaves
\* the filler paragraph, exactly 3 fallback choices and phase reading.
C10_Original ==
    [][ \A req \in DOMAIN contReq :
            (handleChoiceCatch(req) /\ storyData.iteration \in 1..9)
                => /\ fillerAppended
                   /\ IsSome(storyData'.choices)
                   /\ Len(Get(storyData'.choices)) = 3 ]_vars

\* C10 amended: a failed continue-story call leaves the filler paragraph
\* and phase reading at every iteration 1..9, with exactly 3 fallback
\* choices at iterations 1..8 and no choices at iteration 9.
C10_FallbackKeepsReading ==
    [][ \A req \in DOMAIN contReq :
            (handleChoiceCatch(req) /\ storyData.iteration \in 1..9)
                => /\ fillerAppended
                   /\ storyData.iteration <= 8
                        => /\ IsSome(storyData'.choices)
                           /\ Len(Get(storyData'.choices)) = 3
                   /\ storyData.iteration = 9
                        => ~IsSome(storyData'.choices) ]_vars

\* a fallback has just been applied below iteration 9
C10_Witness ==
    /\ phase = "reading"
    /\ Len(storyData.paragraphs) > 0
    /\ isFiller(lastParagraph)
    /\ storyData.currentParagraph = Len(storyData.paragraphs) - 1
    /\ storyData.choices = Some(fallbackChoices)
    /\ storyData.iteration \in 2..9

\* a continue-story response was handled by the try block of handleChoice
continuationSucceeded ==
    \E req \in DOMAIN contReq :
        contReq' = BagRemove(contReq, req) /\ ~handleChoiceCatch(req)

\* C11 as stated: a successful continuation leaves iteration one higher,
\* keeps the paragraphs seen before the choice, adds new ones after them and
\* leaves currentParagraph at the first paragraph it added.
C11_Original ==
    [][ continuationSucceeded
            => /\ storyData'.iteration = storyData.iteration + 1
               /\ Len(storyData'.paragraphs) > Len(storyData.paragraphs)
               /\ SubSeq(storyData'.paragraphs, 1, Len(storyData.paragraphs))
                     = storyData.paragraphs
               /\ storyData'.currentParagraph = Len(storyData.paragraphs) ]_vars

\* C12 as stated: in every session state where iteration has reached 10,
\* videoTriggered is true, whether the tenth iteration came from a
\* continue-story response or from the failure fallback.
C12_Original ==
    (phase \in SessionPhases /\ storyData.iteration >= videoTriggerIteration)
        => videoTriggered

\* C13 as stated: after a video-status response that left the 'Video Not
\* Ready' dialog, choosing 'Generate Video' issues a generation-start
\* request.
C13_Original ==
    [][ alertGenerateVideo
            => BagSize(triggerReq') = BagSize(triggerReq) + 1 ]_vars

\* C14 as stated: whenever VideoPlayerScreen holds an error and no request
\* is in flight, the error view (message and retry) is rendered: the screen
\* is never left on the loading spinner with error set.
C14_Original ==
    (mounted /\ Truthy(error) /\ BagSize(statusReq) = 0
     /\ BagSize(triggerReq) = 0)
        => "error" \in view

\* C15 as stated, for a store that is never cleared: when the last save in
\* flight writes, every URL stored by the saves that finished before it is
\* still in the persisted array.
C15_Original ==
    [][ \A sv \in DOMAIN saves :
            (BagSize(saves) = 1 /\ IsSome(store)
             /\ saveImageToGallerySetItem(sv))
                => \A i \in 1..Len(JSONparse(store)) :
                      includes(JSONparse(store'), JSONparse(store)[i]) ]_vars

\* the id a request of the running session is to carry: the one the server
\* issued last, or the generated one, as the session data records it
carriesSessionId(id) ==
    /\ Truthy(id)
    /\ id # "current_story"
    /\ id = storyData.storyId

\* C16: every continue-story request and every video-status request of the
\* StoryScreen carries, when it is sent, the story id the server issued last
\* for the session (or the generated fallback id), never the placeholder
\* current_story and never the id of an earlier session.
C16_RequestsCarrySessionId ==
    [][ /\ \A r \in DOMAIN contReq' :
              CopiesIn(r, contReq') > CopiesIn(r, contReq)
                  => carriesSessionId(r.story_id)
        /\ \A c \in DOMAIN checks' :
              (c.pc = "fetch" /\ CopiesIn(c, checks') > CopiesIn(c, checks))
                  => carriesSessionId(c.storyId) ]_vars

\* a continue-story response replaced the session's id, and a continue-story
\* request and a video-status request carrying the new id are in flight
C16_Witness ==
    /\ storyData.storyId = "story_xyz"
    /\ \E r \in DOMAIN contReq : r.story_id = "story_xyz"
    /\ \E c \in DOMAIN checks : c.pc = "fetch" /\ c.storyId = "story_xyz"

\* a story_id that is missing (null, undefined), empty or only white space
blankStoryId(id) == id \in {NULL, "", "  "}

\* C17: a successful generate-story response whose story_id is missing or
\* blank still enters phase reading, with a non-empty client-generated id
\* stored in sessionStoryIdRef and in the session data, and raises no
\* failure dialog.
C17_BlankIdFallsBack ==
    [][ \A req \in DOMAIN genReq, result \in StoryGenerateResults,
           fallbackId \in FallbackStoryIds :
            (blankStoryId(result.story_id)
             /\ generateStoryThen(req, result, fallbackId))
                => /\ phase' = "reading"
                   /\ sessionStoryIdRef' \in FallbackStoryIds
                   /\ Truthy(sessionStoryIdRef')
                   /\ trim(sessionStoryIdRef') # ""
                   /\ storyData'.storyId = sessionStoryIdRef'
                   /\ alert' = alert ]_vars

\* a session that runs under a client-generated id
C17_Witness ==
    /\ phase = "reading"
    /\ storyData.iteration = 1
    /\ sessionStoryIdRef \in FallbackStoryIds
    /\ storyData.storyId = sessionStoryIdRef

\* C18 as stated: when the video-status response to a tap on watch is
\* completed with an URL, the video is presented: the player modal is on
\* screen or the browser is opened with the URL.
C18_Original ==
    [][ \A c \in DOMAIN checks, data \in AppVideoStatusData :
            (data.status = "completed"
             /\ (Truthy(data.video_url) \/ Truthy(data.gcs_url))
             /\ phase \in {"reading", "complete"}
             /\ checkAndShowVideoThenPlayer(c, data))
                => \/ playerModalVisible'
                   \/ \E b \in DOMAIN checks' :
                         b.pc = "browser" /\ Truthy(b.url) ]_vars

\* C19 as stated: in phase choosing the session offers at least one choice
\* and iteration is below maxIterations.
C19_Original ==
    phase = "choosing"
        => /\ IsSome(storyData.choices)
           /\ Len(Get(storyData.choices)) >= 1
           /\ storyData.iteration < storyData.maxIterations

\* C20 as stated: with a user who keeps tapping and a server that answers
\* every request, every session eventually reaches phase complete.
C20_Original ==
    (phase \in {"reading", "choosing"}) ~> (phase = "complete")

\* the phase changes the claim lists, reset apart
AllowedPhaseChanges ==
    { <<"input", "loading">>, <<"loading", "reading">>,
      <<"loading", "input">>, <<"reading", "choosing">>,
      <<"choosing", "loading">>, <<"reading", "complete">> }

\* C21: every phase change of the phase-driven StoryScreen is one of
\* input->loading, loading->reading, loading->input, reading->choosing,
\* choosing->loading, reading->complete, or a reset to input; a
\* continue-story response or fallback is applied in phase loading only, so
\* it never moves the phase out of complete or input.
C21_PhaseChanges ==
    [][ /\ phase' # phase
            => \/ <<phase, phase'>> \in AllowedPhaseChanges
               \/ resetStory
        /\ \A req \in DOMAIN contReq :
              (\/ handleChoiceCatch(req)
               \/ \E result \in AppContinueResults :
                     handleChoiceThen(req, result))
                  => phase = "loading" /\ phase' = "reading" ]_vars

\* a session that went through two choices is complete while the response
\* to a video check is still to come
C21_Witness ==
    /\ phase = "complete"
    /\ storyData.iteration = 3
    /\ BagSize(checks) > 0

\* a choice button of the screen can be pressed
choiceCanBeSubmitted ==
    \/ ENABLED (\E choiceIndex \in 1..3 : handleChoice(choiceIndex))
    \/ ENABLED (\E choiceIndex \in 1..3 : handleChoiceRoute(choiceIndex))

\* C22 as stated: no guard prevents a second choice while a continue-story
\* request is in flight: a choice can be submitted then.
C22_Original ==
    (BagSize(contReq) > 0 \/ BagSize(routeContReq) > 0)
        => choiceCanBeSubmitted

\* C22 amended: while a continue-story request is in flight no choice can
\* be submitted, so each screen has at most one continue-story request
\* outstanding.
C22_OneContinuationInFlight ==
    /\ BagSize(contReq) <= 1
    /\ BagSize(routeContReq) <= 1
    /\ (BagSize(contReq) > 0 \/ BagSize(routeContReq) > 0)
          => ~choiceCanBeSubmitted

\* a continue-story request of the route-driven screen is in flight, the
\* image has finished loading, and selectedChoice alone keeps the buttons
\* disabled
C22_Witness ==
    /\ BagSize(routeContReq) = 1
    /\ RouteUIFree
    /\ choiceButtonsShown(screen)
    /\ ~screen.imageLoading
    /\ screen.selectedChoice # NULL

\* C23 as stated: after a failed continue-story call of the route-driven
\* screen, selectedChoice is cleared and imageLoading is false, so the
\* choice buttons are enabled again.
C23_Original ==
    [][ \A req \in DOMAIN routeContReq :
            handleChoiceRouteCatch(req)
                => /\ routeAlert' = "continue_error"
                   /\ screen'.selectedChoice = NULL
                   /\ ~screen'.imageLoading
                   /\ ~choiceButtonsDisabled(screen') ]_vars

\* C24: a failed generate-story call returns the phase to input with the
\* failure alert on screen; from the submit up to the failure the session
\* data is not touched, and no session story id is set.
C24_FailedGenerationKeepsSession ==
    [][ /\ generateStory => storyData' = storyData
        /\ (BagSize(genReq) > 0 /\ genReq' = genReq)
              => storyData' = storyData
        /\ \A req \in DOMAIN genReq :
              generateStoryCatch(req)
                  => /\ phase = "loading"
                     /\ phase' = "input"
                     /\ alert'.kind = "generation_failed"
                     /\ storyData' = storyData
                     /\ sessionStoryIdRef' = NULL
                     /\ storyData'.storyId = NULL ]_vars

\* a generation failed after an earlier session had run and stored an image
C24_Witness ==
    /\ phase = "input"
    /\ alert.kind = "generation_failed"
    /\ sessionStoryIdRef = NULL
    /\ IsSome(store)

\* C25 as stated: when the store has been cleared and the last pending save
\* writes, the persisted array holds no URL from before the clear: it holds
\* the URL of that save only.
C25_Original ==
    [][ \A sv \in DOMAIN saves :
            (store = None /\ clears = 0 /\ BagSize(saves) = 1
             /\ saveImageToGallerySetItem(sv))
                => \A i \in 1..Len(JSONparse(store')) :
                      JSONparse(store')[i] = sv.imageUrl ]_vars

\* C26: in every variant a tick of the polling timer issues a video-status
\* request only while the screen is mounted, and only for the storyId the
\* screen currently has: the timer of a dismissed screen, or of a previous
\* storyId, is cancelled.
C26_DismissedTimerCancelled ==
    [][ (timerTick /\ statusReq' # statusReq)
            => /\ mounted
               /\ checkInterval.live
               /\ checkInterval.storyId = storyId ]_vars

\* a dismissed screen whose timer, created after a storyId change while the
\* status was processing, would have polled
C26_Witness ==
    /\ ~mounted
    /\ intervalPolls(checkInterval)
    /\ ~checkInterval.live
    /\ BagSize(statusReq) < MaxStatusReq

\* C27 as stated: when the generate-story request of the next session is
\* sent, the client state holds no data of the previous session: the
\* phase-driven screen has the initial storyData, videoTriggered false and no
\* session story ID; the route-driven screen has no story, no images, no
\* scene count, no selected choice and videoTriggered false.
C27_Original ==
    [][ /\ generateStory
            => /\ storyData' = initialStoryData
               /\ ~videoTriggered'
               /\ sessionStoryIdRef' = NULL
        /\ \A newTheme \in RouteThemes :
              themeChange(newTheme)
                  => /\ screen'.story = None
                     /\ screen'.currentParagraph = 0
                     /\ screen'.storyImages = {}
                     /\ screen'.sceneCount = 0
                     /\ screen'.selectedChoice = NULL
                     /\ ~screen'.videoTriggered ]_vars

\* C28: in every reachable state of the phase-driven StoryScreen iteration
\* lies between 1 and maxIterations, and maxIterations is 10.
C28_IterationInRange ==
    /\ storyData.maxIterations = 10
    /\ storyData.iteration >= 1
    /\ storyData.iteration <= storyData.maxIterations

\* a session that ended at iteration 10 with choices still present: only
\* handleNext's test of iteration kept a further choice from being offered
C28_Witness ==
    /\ phase = "complete"
    /\ storyData.iteration = storyData.maxIterations
    /\ IsSome(storyData.choices)

\* C29: at most one video-status check of checkAndShowVideo is in
\* flight at a time, and isCheckingVideoStatus is false whenever no check is
\* running.
C29_OneCheckInFlight ==
    /\ BagSize(checks) <= 1
    /\ (checks = EmptyBag => ~isCheckingVideoStatus)

\* the 'Amazing!' alert is up while a check started from the watch button is
\* still in flight: its Watch Video button calls checkAndShowVideo again
C29_Witness ==
    /\ alert.kind = "video_triggered"
    /\ alert.checking
    /\ BagSize(checks) = 1
    /\ isCheckingVideoStatus

\* C30 as stated: the mounted react-native-video screen renders exactly one
\* of its four views (checking, generating, player, error).
C30_Original ==
    (variant = "react-native-video" /\ mounted) => Cardinality(view) = 1

====
